---- MODULE Spec2Model ----
(***************************************************************************)
(* The Citi Bike Strategy Dashboard, st_dashboard_Part_2.py: a Streamlit   *)
(* script that is run from its first line to its last on every user        *)
(* interaction.  The state is the files in the working directory, the      *)
(* session's widget state (the selected page, the season multiselect) and  *)
(* the names the running script has bound (df, top20_csv, df1, ...) with   *)
(* the elements it has put on the page.                                    *)
(*                                                                         *)
(* A table is [cols |-> sequence of column names, rows |-> sequence of     *)
(* rows], a row a function from column name to cell.  A numeric or station *)
(* cell is <<v>>, a missing one (pandas' NaN) is <<>>; a season cell is a  *)
(* string; a date cell is <<"str", k>> as read from the CSV and            *)
(* <<"ts", k>> once parsed.  A string that is cut or searched is a         *)
(* sequence of one-character strings.                                      *)
(***************************************************************************)
EXTENDS Integers, Sequences, FiniteSets, TLC

VARIABLES
    disk,            \* status of each file in the working directory
    csv,             \* the content of reduced_data_to_plot_7.csv
    page,            \* the sidebar selectbox
    widget,          \* the season multiselect's stored value <<S>>, or <<>>
    pc,              \* where the running script is
    df,              \* the script's names ...
    top20_csv,
    season_filter,
    df1,
    station_col_df,
    top20_local,
    out,             \* the elements the run has put on the page
    outcome,         \* how the run ended
    total_rides,
    weatherSeen,     \* history: the weather page has rewritten df in this session
    fmt              \* the label formatter's call under check

vars == <<disk, csv, page, widget, pc, df, top20_csv, season_filter, df1,
          station_col_df, top20_local, total_rides, out, outcome, weatherSeen, fmt>>

----------------------------------------------------------------------------
(* Program constants *)

TopN == 20
TickLen == 28
CumulativeThreshold == 100

(* Bounds of the model *)

MaxBlock == 21     \* most stations a generated table has one row each of
MaxTail == 2       \* free rows after them
MaxBad == 1        \* files that are not readable at once
MaxSeries == 3     \* longest temperature series
MaxLen == 4        \* longest string handed to shorten
MaxN == 4          \* largest display length handed to shorten

----------------------------------------------------------------------------
(* Values *)

Missing == <<>>
NoTable == [cols |-> <<>>, rows |-> <<>>]
NoColumn == "None"

Range(s) == {s[i] : i \in DOMAIN s}

Pages == <<"Intro page", "Weather component and bike usage",
           "Most popular stations",
           "Interactive map with aggregated bike trips", "Recommendations">>

Primary == "reduced_data_to_plot_7.csv"
Top20File == "top20.csv"
IntroImage == "CitiBike.jpg"
MapHtml == "CitiBike_Trips.html"
RecsImage == "recs_page.jpg"
Assets == {Primary, Top20File, IntroImage, MapHtml, RecsImage}

MsgNoFile == "Could not find 'reduced_data_to_plot_7.csv' in working directory."
MsgNoImage == "Could not load image 'CitiBike.jpg'"
MsgNoData == "No data for the selected season(s). Please choose different season(s)."
MsgNoStationCol == "Could not find a station column in the main dataframe (df)."
MsgNoMap == "Map HTML file not found at: CitiBike_Trips.html"
MsgBadMap == "Error loading map HTML"

El(k, t) == [kind |-> k, text |-> t]

----------------------------------------------------------------------------
(* Strings as the code searches them: 'start' in c, 'station' in c *)

Chars(s) ==
    CASE s = "start" -> <<"s","t","a","r","t">>
      [] s = "station" -> <<"s","t","a","t","i","o","n">>
      [] s = "name" -> <<"n","a","m","e">>
      [] s = "date" -> <<"d","a","t","e">>
      [] s = "season" -> <<"s","e","a","s","o","n">>
      [] s = "avgTemp" -> <<"a","v","g","T","e","m","p">>
      [] s = "avgTemp_daily" ->
            <<"a","v","g","T","e","m","p","_","d","a","i","l","y">>
      [] s = "value" -> <<"v","a","l","u","e">>
      [] s = "bike_rides_daily" ->
            <<"b","i","k","e","_","r","i","d","e","s","_","d","a","i","l","y">>
      [] s = "start_station_name" ->
            <<"s","t","a","r","t","_","s","t","a","t","i","o","n","_","n","a","m","e">>
      [] s = "end_station_name" ->
            <<"e","n","d","_","s","t","a","t","i","o","n","_","n","a","m","e">>
      [] s = "start_time" -> <<"s","t","a","r","t","_","t","i","m","e">>

HasSub(p, s) ==
    \E i \in 0..(Len(s) - Len(p)) : SubSeq(s, i + 1, i + Len(p)) = p

In(sub, c) == HasSub(Chars(sub), Chars(c))

----------------------------------------------------------------------------
(* pandas, as far as the script uses it *)

HasCol(d, c) == c \in Range(d.cols)

Column(d, c) == [i \in 1..Len(d.rows) |-> d.rows[i][c]]

\* df[c] = series: the column is added at the end, or overwritten in place.
WithColumn(d, c, series) ==
    [cols |-> IF HasCol(d, c) THEN d.cols ELSE Append(d.cols, c),
     rows |-> [i \in 1..Len(d.rows) |->
                 [k \in (DOMAIN d.rows[i]) \cup {c} |->
                     IF k = c THEN series[i] ELSE d.rows[i][k]]]]

\* pd.to_datetime on a column of date strings
to_datetime(series) ==
    [i \in 1..Len(series) |->
        IF series[i] # Missing /\ series[i][1] = "str"
        THEN <<"ts", series[i][2]>> ELSE series[i]]

\* Series.max(): the largest value that is not missing, NaN when there is none
SeriesMax(series) ==
    LET present == {series[i][1] : i \in {j \in 1..Len(series) : series[j] # Missing}}
    IN IF present = {} THEN Missing
       ELSE <<CHOOSE m \in present : \A x \in present : x <= m>>

\* Series.diff(): NaN first, and NaN wherever either neighbour is missing
diff(series) ==
    [i \in 1..Len(series) |->
        IF i = 1 \/ series[i] = Missing \/ series[i - 1] = Missing
        THEN Missing
        ELSE <<series[i][1] - series[i - 1][1]>>]

\* a.fillna(b): every missing entry of a is taken from b at the same index
fillna(a, b) == [i \in 1..Len(a) |-> IF a[i] = Missing THEN b[i] ELSE a[i]]

\* Lines 87-90: a NaN maximum compares False with the threshold
avgTemp_daily(series) ==
    LET m == SeriesMax(series)
    IN IF m # Missing /\ m[1] > CumulativeThreshold
       THEN fillna(diff(series), series)
       ELSE series

\* df.query('season == @season_filter'): == against a list is membership
Query(d, sel) ==
    [cols |-> d.cols,
     rows |-> SelectSeq(d.rows, LAMBDA r : r["season"] \in sel)]

\* df['season'].unique()
Unique(d) == {d.rows[i]["season"] : i \in 1..Len(d.rows)}

\* Series.count(): the entries that are not missing
Count(series) == Cardinality({i \in 1..Len(series) : series[i] # Missing})

RECURSIVE SortKeys(_)
SortKeys(S) ==
    IF S = {} THEN <<>>
    ELSE LET k == CHOOSE x \in S : \A y \in S : x[1] <= y[1]
         IN <<k>> \o SortKeys(S \ {k})

RECURSIVE SumValue(_, _, _)
SumValue(rows, col, key) ==
    IF rows = <<>> THEN 0
    ELSE (IF rows[1][col] = key THEN rows[1]["value"] ELSE 0)
         + SumValue(Tail(rows), col, key)

\* Mutant of GroupBySum: agg({'value': 'first'}), the first value of each key
GroupByFirst(d, col) ==
    LET keys == SortKeys({d.rows[i][col] : i \in 1..Len(d.rows)} \ {Missing})
    IN [i \in 1..Len(keys) |-> [station |-> keys[i], value |-> 1]]

\* df1.groupby(col, as_index=False).agg({'value': 'sum'}): one row per key that
\* is not missing, in key order
GroupBySum(d, col) ==
    LET keys == SortKeys({d.rows[i][col] : i \in 1..Len(d.rows)} \ {Missing})
    IN [i \in 1..Len(keys) |->
          [station |-> keys[i], value |-> SumValue(d.rows, col, keys[i])]]

RemoveAt(s, i) == SubSeq(s, 1, i - 1) \o SubSeq(s, i + 1, Len(s))

\* Mutant of nlargest: head(n), the first n rows as they stand
head(n, g) == SubSeq(g, 1, IF n < Len(g) THEN n ELSE Len(g))

\* nlargest(n, 'value'), keep='first': largest first, equal values in the
\* order they have in the frame
RECURSIVE nlargest(_, _)
nlargest(n, g) ==
    IF n = 0 \/ g = <<>> THEN <<>>
    ELSE LET i == CHOOSE a \in 1..Len(g) :
                    /\ \A b \in 1..Len(g) : g[b].value <= g[a].value
                    /\ \A b \in 1..(a - 1) : g[b].value < g[a].value
         IN <<g[i]>> \o nlargest(n - 1, RemoveAt(g, i))

----------------------------------------------------------------------------
(* The label formatter, lines 189-190 *)

Whitespace == {" ", "\t"}

\* The one character U+2026, the horizontal ellipsis, written "~" here
Ellipsis == "~"

\* name[:k] as Python slices it
Slice(name, k) ==
    IF k >= 0 THEN SubSeq(name, 1, IF k < Len(name) THEN k ELSE Len(name))
    ELSE SubSeq(name, 1, IF Len(name) + k > 0 THEN Len(name) + k ELSE 0)

RECURSIVE rstrip(_)
rstrip(s) ==
    IF s # <<>> /\ s[Len(s)] \in Whitespace
    THEN rstrip(SubSeq(s, 1, Len(s) - 1)) ELSE s

\* Mutant of shorten: the cut keeps the blanks it ends in
shortenKeepBlanks(name, n) ==
    IF Len(name) <= n THEN name ELSE Append(Slice(name, n - 1), Ellipsis)

shorten(name, n) ==
    IF Len(name) <= n THEN name ELSE Append(rstrip(Slice(name, n - 1)), Ellipsis)

\* Lines 175-179: the station column of df1
station_candidates(cols) ==
    SelectSeq(cols, LAMBDA c : (In("start", c) /\ In("station", c))
                               \/ (In("station", c) /\ In("start", c)))

\* Mutant of StationColumn: the first column with 'station' or 'name', a
\* start station column not preferred
StationColumnAny(cols) ==
    LET fallback == SelectSeq(cols, LAMBDA c : In("station", c) \/ In("name", c))
    IN IF fallback # <<>> THEN fallback[1] ELSE NoColumn

StationColumn(cols) ==
    LET fallback == SelectSeq(cols, LAMBDA c : In("station", c) \/ In("name", c))
    IN IF station_candidates(cols) # <<>> THEN station_candidates(cols)[1]
       ELSE IF fallback # <<>> THEN fallback[1]
       ELSE NoColumn

----------------------------------------------------------------------------
(* The input files the model draws from *)

Seasons == {"Summer", "Winter"}

LStd == <<"date", "season", "start_station_name", "bike_rides_daily", "avgTemp">>
LBoth == <<"date", "season", "end_station_name", "start_station_name",
           "bike_rides_daily", "avgTemp">>
LFallback == <<"date", "season", "name", "end_station_name",
               "bike_rides_daily", "avgTemp">>
LNoStation == <<"date", "season", "start_time", "bike_rides_daily", "avgTemp">>
LNoRides == <<"date", "season", "start_station_name", "avgTemp">>
LNoSeason == <<"date", "start_station_name", "bike_rides_daily", "avgTemp">>
LNoDate == <<"season", "start_station_name", "bike_rides_daily">>
Layouts == {LStd, LBoth, LFallback, LNoStation, LNoRides, LNoSeason, LNoDate}

\* Row i of a file with the given columns: d gives its season, its start
\* station and its temperature.
MkRow(layout, i, d) ==
    [c \in Range(layout) |->
        CASE c = "date" -> <<"str", i>>
          [] c = "start_time" -> <<"str", i>>
          [] c = "season" -> d.season
          [] c \in {"start_station_name", "name"} -> d.st
          [] c = "end_station_name" -> <<(i % 2) + 1>>
          [] c = "bike_rides_daily" -> <<1>>
          [] c = "avgTemp" -> d.temp]

MkTable(layout, descs) ==
    [cols |-> layout,
     rows |-> [i \in 1..Len(descs) |-> MkRow(layout, i, descs[i])]]

\* Stations 1..b with one row each, two thirds of them in summer, with a
\* temperature that keeps growing
Block(b) ==
    [i \in 1..b |-> [season |-> IF i % 3 = 0 THEN "Winter" ELSE "Summer",
                     st |-> <<i>>, temp |-> <<10 * i>>]]

Blocks == {0} \cup (TopN..MaxBlock)

TailRows ==
    {[season |-> s, st |-> k, temp |-> <<20>>] :
        s \in Seasons, k \in {<<2>>, <<MaxBlock>>, Missing}}

Tails == UNION {[1..n -> TailRows] : n \in 0..MaxTail}

\* Section 8's scenario: stations A = 1 (10 trips), B = 2 (25 trips) and
\* C = 3 (5 trips), all in summer
Scenario ==
    [i \in 1..40 |-> [season |-> "Summer",
                      st |-> IF i <= 10 THEN <<1>> ELSE IF i <= 35 THEN <<2>> ELSE <<3>>,
                      temp |-> <<20>>]]

Tables ==
    {MkTable(l, Block(b) \o t) : l \in Layouts, b \in Blocks, t \in Tails}
    \cup {MkTable(LStd, Scenario)}

TempValues == {Missing, <<40>>, <<100>>, <<101>>, <<150>>}

TempSeries == UNION {[1..n -> TempValues] : n \in 0..MaxSeries}

TempTables ==
    {MkTable(LStd, [i \in 1..Len(t) |->
                      [season |-> IF i % 2 = 0 THEN "Winter" ELSE "Summer",
                       st |-> <<i>>, temp |-> t[i]]]) : t \in TempSeries}

AllOk == [a \in Assets |-> "ok"]

BadDisks ==
    {d \in [Assets -> {"ok", "missing", "bad"}] :
        /\ {a \in Assets : d[a] # "ok"} # {}
        /\ Cardinality({a \in Assets : d[a] # "ok"}) <= MaxBad}

Alphabet == {"a", " ", "\t", Ellipsis}

Strings == UNION {[1..n -> Alphabet] : n \in 0..MaxLen}

\* The names the station identifiers stand for: station i has 8 + i
\* characters, with a blank at every ninth
StationName(k) ==
    IF k = Missing THEN <<"n", "a", "n">>
    ELSE [j \in 1..(8 + k[1]) |-> IF j % 9 = 0 THEN " " ELSE "s"]

IdleFmt == [name |-> <<>>, n |-> 0, first |-> <<>>, again |-> <<>>, calls |-> 0]

----------------------------------------------------------------------------
(* The script *)

\* The names of a run that has not bound them yet
FreshRun ==
    /\ pc' = "import"
    /\ top20_csv' = "unset"
    /\ season_filter' = {}
    /\ df1' = NoTable
    /\ station_col_df' = NoColumn
    /\ top20_local' = <<>>
    /\ total_rides' = 0
    /\ out' = <<>>
    /\ outcome' = "running"

InitRun ==
    /\ page = Pages[1]
    /\ widget = <<>>
    /\ pc = "import"
    /\ df = NoTable
    /\ top20_csv = "unset"
    /\ season_filter = {}
    /\ df1 = NoTable
    /\ station_col_df = NoColumn
    /\ top20_local = <<>>
    /\ total_rides = 0
    /\ out = <<>>
    /\ outcome = "running"
    /\ weatherSeen = FALSE

Init ==
    /\ InitRun
    /\ fmt = IdleFmt
    /\ \/ disk = AllOk /\ csv \in Tables
       \/ /\ disk \in BadDisks
          /\ csv = IF disk[Primary] = "ok" THEN MkTable(LStd, Block(3)) ELSE NoTable

\* Mutant of ReadCsv: the table of an earlier run is kept once it is loaded
ReadCsvCached == IF df # NoTable THEN df ELSE csv

\* Line 43: pd.read_csv reads the file anew in every run
ReadCsv == csv

\* Mutant of AfterMissingPrimary: the error is shown and the script goes on
ContinueAfterMissing == [pc |-> "top20", outcome |-> "running"]

\* Line 46: st.stop() ends the run
AfterMissingPrimary == [pc |-> "done", outcome |-> "stopped"]

\* Lines 41-46
ImportData ==
    /\ pc = "import"
    /\ IF disk[Primary] = "ok"
       THEN /\ df' = ReadCsv
            /\ pc' = "top20"
            /\ UNCHANGED <<out, outcome>>
       ELSE IF disk[Primary] = "missing"
       THEN /\ out' = Append(out, El("error", MsgNoFile))
            /\ pc' = AfterMissingPrimary.pc
            /\ outcome' = AfterMissingPrimary.outcome
            /\ UNCHANGED df
       ELSE \* any other exception of read_csv is not caught
            /\ pc' = "done"
            /\ outcome' = "fault"
            /\ UNCHANGED <<df, out>>
    /\ UNCHANGED <<disk, csv, page, widget, top20_csv, season_filter, df1,
                   station_col_df, top20_local, total_rides, weatherSeen, fmt>>

\* Lines 48-52
ImportTop20 ==
    /\ pc = "top20"
    /\ top20_csv' = IF disk[Top20File] = "ok" THEN "frame" ELSE "None"
    /\ pc' = "page"
    /\ UNCHANGED <<disk, csv, page, widget, df, season_filter, df1, station_col_df,
                   top20_local, total_rides, out, outcome, weatherSeen, fmt>>

\* Lines 57-73
IntroPage ==
    /\ pc = "page" /\ page = Pages[1]
    /\ out' = out \o [i \in 1..7 |-> El("markdown", "intro")]
                  \o <<IF disk[IntroImage] = "ok" THEN El("image", IntroImage)
                       ELSE El("warning", MsgNoImage)>>
    /\ pc' = "done"
    /\ outcome' = "ok"
    /\ UNCHANGED <<disk, csv, page, widget, df, top20_csv, season_filter, df1,
                   station_col_df, top20_local, total_rides, weatherSeen, fmt>>

\* Lines 76-149
WeatherPage ==
    /\ pc = "page" /\ page = Pages[2]
    /\ IF df = NoTable
       THEN /\ outcome' = "fault"
            /\ UNCHANGED <<df, out, weatherSeen>>
       ELSE LET dated == IF HasCol(df, "date")
                         THEN WithColumn(df, "date", to_datetime(Column(df, "date")))
                         ELSE df
                daily == IF HasCol(dated, "avgTemp")
                         THEN WithColumn(dated, "avgTemp_daily",
                                         avgTemp_daily(Column(dated, "avgTemp")))
                         ELSE dated
            IN /\ df' = daily
               /\ weatherSeen' = TRUE
               /\ IF /\ HasCol(daily, "date")
                     /\ HasCol(daily, "bike_rides_daily")
                     /\ HasCol(daily, "avgTemp_daily")
                  THEN /\ out' = out \o <<El("chart", "Daily Bike Rides vs Average Temperature"),
                                          El("markdown", "weather"),
                                          El("markdown", "weather")>>
                       /\ outcome' = "ok"
                  ELSE \* KeyError at line 98, 99 or 110
                       /\ outcome' = "fault"
                       /\ UNCHANGED out
    /\ pc' = "done"
    /\ UNCHANGED <<disk, csv, page, widget, top20_csv, season_filter, df1,
                   station_col_df, top20_local, total_rides, fmt>>

\* Mutant of empty: the check is left out
neverEmpty(d) == FALSE

\* Line 165: df1.empty
empty(d) == d.rows = <<>>

\* Mutant of AssignValue: the helper column is written to the shared table too
AssignValueInPlace(d, d1) ==
    [df |-> WithColumn(d, "value", [i \in 1..Len(d.rows) |-> 1]),
     df1 |-> WithColumn(d1, "value", [i \in 1..Len(d1.rows) |-> 1])]

\* Line 173: df1['value'] = 1 writes to the copy made at line 163
AssignValue(d, d1) ==
    [df |-> d,
     df1 |-> WithColumn(d1, "value", [i \in 1..Len(d1.rows) |-> 1])]

\* Lines 185-195: the frame the chart is drawn from.  The counts are
\* integers already, so to_numeric and fillna(0) leave them as they are.
Top20(d1, col) ==
    LET df_groupby_bar == GroupBySum(d1, col)
        top == nlargest(TopN, df_groupby_bar)
    IN [i \in 1..Len(top) |->
          [station |-> top[i].station,
           value |-> top[i].value,
           tick_label |-> shorten(StationName(top[i].station), TickLen)]]

\* The multiselect of lines 156-160: what the user chose, else the default
WidgetValue(d) == IF widget = <<>> THEN Unique(d) ELSE widget[1]

\* Lines 152-231
StationsPage ==
    /\ pc = "page" /\ page = Pages[3]
    /\ pc' = "done"
    /\ IF df = NoTable \/ ~HasCol(df, "season")
       THEN \* NameError, or KeyError at line 158
            /\ outcome' = "fault"
            /\ UNCHANGED <<df, season_filter, df1, station_col_df, top20_local,
                           total_rides, out>>
       ELSE LET sel == WidgetValue(df)
                filtered == Query(df, sel)
            IN /\ season_filter' = sel
               /\ IF empty(filtered)
                  THEN /\ out' = Append(out, El("error", MsgNoData))
                       /\ outcome' = "ok"
                       /\ df1' = filtered
                       /\ UNCHANGED <<df, station_col_df, top20_local, total_rides>>
                  ELSE IF ~HasCol(filtered, "bike_rides_daily")
                  THEN \* KeyError at line 169
                       /\ outcome' = "fault"
                       /\ df1' = filtered
                       /\ UNCHANGED <<df, station_col_df, top20_local, total_rides, out>>
                  ELSE LET w == AssignValue(df, filtered)
                           col == StationColumn(w.df1.cols)
                       IN /\ total_rides' = Count(Column(filtered, "bike_rides_daily"))
                          /\ df' = w.df
                          /\ df1' = w.df1
                          /\ station_col_df' = col
                          /\ IF col = NoColumn
                             THEN /\ out' = out \o <<El("metric", "Total Bike Rides"),
                                                     El("error", MsgNoStationCol)>>
                                  /\ outcome' = "stopped"
                                  /\ UNCHANGED top20_local
                             ELSE /\ top20_local' = Top20(w.df1, col)
                                  /\ out' = out \o <<El("metric", "Total Bike Rides"),
                                                     El("chart", "Top 20 Most Popular Bike Stations"),
                                                     El("markdown", "stations"),
                                                     El("markdown", "stations")>>
                                  /\ outcome' = "ok"
    /\ UNCHANGED <<disk, csv, page, widget, top20_csv, weatherSeen, fmt>>

\* Lines 233-255
MapPage ==
    /\ pc = "page" /\ page = Pages[4]
    /\ out' = out \o <<El("write", "map")>> \o
              (IF disk[MapHtml] = "ok"
               THEN <<El("header", "Aggregated Bike Trips in New York"),
                      El("html", MapHtml), El("markdown", "Yes")>>
               ELSE IF disk[MapHtml] = "missing"
               THEN <<El("error", MsgNoMap)>>
               ELSE <<El("error", MsgBadMap), El("markdown", "map"),
                      El("markdown", "map"), El("markdown", "map")>>)
    /\ pc' = "done"
    /\ outcome' = "ok"
    /\ UNCHANGED <<disk, csv, page, widget, df, top20_csv, season_filter, df1,
                   station_col_df, top20_local, total_rides, weatherSeen, fmt>>

\* Lines 257-264: Image.open is not guarded here
RecsPage ==
    /\ pc = "page" /\ page = Pages[5]
    /\ IF disk[RecsImage] = "ok"
       THEN /\ out' = out \o <<El("header", "Conclusions and recommendations"),
                               El("image", RecsImage)>>
                          \o [i \in 1..4 |-> El("markdown", "recs")]
            /\ outcome' = "ok"
       ELSE /\ out' = Append(out, El("header", "Conclusions and recommendations"))
            /\ outcome' = "fault"
    /\ pc' = "done"
    /\ UNCHANGED <<disk, csv, page, widget, df, top20_csv, season_filter, df1,
                   station_col_df, top20_local, total_rides, weatherSeen, fmt>>

(* The user.  Every interaction runs the script again from line 1; the
   previous run's df is out of the new run's reach, and line 43 rebinds the
   name before anything reads it. *)

\* Lines 28-37: another page is selected; a multiselect that is no longer
\* drawn loses its stored value
SelectPage ==
    /\ pc = "done"
    /\ \E i \in 1..Len(Pages) :
          /\ Pages[i] # page
          /\ page' = Pages[i]
    /\ widget' = <<>>
    /\ FreshRun
    /\ UNCHANGED <<disk, csv, df, weatherSeen, fmt>>

\* Lines 155-160: another set of the seasons on offer is selected
SelectSeasons ==
    /\ pc = "done" /\ page = Pages[3]
    /\ df1 # NoTable
    /\ \E S \in SUBSET Unique(df) :
          /\ S # season_filter
          /\ widget' = <<S>>
    /\ FreshRun
    /\ UNCHANGED <<disk, csv, page, df, weatherSeen, fmt>>

Next ==
    \/ ImportData
    \/ ImportTop20
    \/ IntroPage
    \/ WeatherPage
    \/ StationsPage
    \/ MapPage
    \/ RecsPage
    \/ SelectPage
    \/ SelectSeasons

Spec == Init /\ [][Next]_vars

\* The same script over files whose temperature column is drawn freely
InitTemp ==
    /\ InitRun
    /\ fmt = IdleFmt
    /\ disk = AllOk
    /\ csv \in TempTables

SpecTemp == InitTemp /\ [][Next]_vars

----------------------------------------------------------------------------
(* The label formatter on its own: shorten(name, n), and shorten again of
   what it returned.  n is a display length, at least one character. *)

InitShorten ==
    /\ InitRun
    /\ disk = AllOk
    /\ csv = MkTable(LStd, Block(3))
    /\ fmt \in [name : Strings, n : 1..MaxN, first : {<<>>}, again : {<<>>},
                calls : {0}]

Format ==
    /\ fmt.calls = 0
    /\ fmt' = [fmt EXCEPT !.first = shorten(fmt.name, fmt.n), !.calls = 1]
    /\ UNCHANGED <<disk, csv, page, widget, pc, df, top20_csv, season_filter, df1,
                   station_col_df, top20_local, total_rides, out, outcome,
                   weatherSeen>>

FormatAgain ==
    /\ fmt.calls = 1
    /\ fmt' = [fmt EXCEPT !.again = shorten(fmt.first, fmt.n), !.calls = 2]
    /\ UNCHANGED <<disk, csv, page, widget, pc, df, top20_csv, season_filter, df1,
                   station_col_df, top20_local, total_rides, out, outcome,
                   weatherSeen>>

NextShorten == Format \/ FormatAgain

SpecShorten == InitShorten /\ [][NextShorten]_vars

----------------------------------------------------------------------------
(* What the claims speak of, read off the file and the page *)

OnStations == pc = "done" /\ page = Pages[3]

Drawn(kind) == \E i \in 1..Len(out) : out[i].kind = kind

\* The stations page has drawn its chart
ChartDrawn == OnStations /\ outcome = "ok" /\ Drawn("chart")

\* The rows of the file whose season is in the selection
MatchIdx == {i \in 1..Len(csv.rows) : csv.rows[i]["season"] \in season_filter}

\* The stations of those rows, and the trips of one of them
MatchStations == {csv.rows[i][station_col_df] : i \in MatchIdx} \ {Missing}

TripsOf(k) == Cardinality({i \in MatchIdx : csv.rows[i][station_col_df] = k})

Returned == {top20_local[i].station : i \in 1..Len(top20_local)}

RECURSIVE SumCounts(_)
SumCounts(t) == IF t = <<>> THEN 0 ELSE t[1].value + SumCounts(Tail(t))

----------------------------------------------------------------------------
(* C1 as stated: whenever the stations page has filtered and aggregated, the
   trip counts it returns add up to the number of rows of the file whose
   season is in the selection. *)
C1_SumEqualsMatchingRows ==
    (OnStations /\ outcome = "ok" /\ df1 # NoTable)
        => SumCounts(top20_local) = Cardinality(MatchIdx)

(* C1 amended: the returned counts add up to the number of matching rows whose
   station is one of the returned stations; when the selection has at most 20
   distinct stations that is every matching row with a station value, and
   every matching row when none lacks its station. *)
C1_SumEqualsReturnedRows ==
    ChartDrawn =>
        /\ SumCounts(top20_local)
             = Cardinality({i \in MatchIdx : csv.rows[i][station_col_df] \in Returned})
        /\ Cardinality(MatchStations) <= TopN =>
             SumCounts(top20_local)
               = Cardinality({i \in MatchIdx : csv.rows[i][station_col_df] # Missing})
        /\ (/\ Cardinality(MatchStations) <= TopN
            /\ \A i \in MatchIdx : csv.rows[i][station_col_df] # Missing) =>
             SumCounts(top20_local) = Cardinality(MatchIdx)

\* The chart is drawn from a selection with more than 20 stations and a row
\* without a station: the sum falls short of the matching rows on both counts.
C1_Witness ==
    /\ ChartDrawn
    /\ Cardinality(MatchStations) > TopN
    /\ \E i \in MatchIdx : csv.rows[i][station_col_df] = Missing
    /\ SumCounts(top20_local) < Cardinality(MatchIdx)

(* C2: when the filtered table is not empty and the chart is drawn, the result
   has at most 20 entries, one per station and as many as there are stations
   up to 20, each with the number of filtered rows of its station, in
   descending order of count, and no station left out has more trips than one
   that is in; section 8's scenario gives (B,25), (A,10), (C,5). *)
C2_Top20Ranked ==
    ChartDrawn =>
        /\ Len(top20_local) <= TopN
        /\ Len(top20_local) = IF Cardinality(MatchStations) <= TopN
                              THEN Cardinality(MatchStations) ELSE TopN
        /\ Returned \subseteq MatchStations
        /\ \A i, j \in 1..Len(top20_local) :
              /\ i # j => top20_local[i].station # top20_local[j].station
              /\ i < j => top20_local[i].value >= top20_local[j].value
        /\ \A i \in 1..Len(top20_local) :
              top20_local[i].value = TripsOf(top20_local[i].station)
        /\ \A k \in MatchStations \ Returned : \A i \in 1..Len(top20_local) :
              TripsOf(k) <= top20_local[i].value
        /\ (csv = MkTable(LStd, Scenario) /\ season_filter = {"Summer"}) =>
              [i \in 1..Len(top20_local) |->
                  <<top20_local[i].station, top20_local[i].value>>]
                = << <<(<<2>>), 25>>, <<(<<1>>), 10>>, <<(<<3>>), 5>> >>

\* More than 20 stations match, 20 are returned, and the first has more trips
\* than the last.
C2_Witness ==
    /\ ChartDrawn
    /\ Cardinality(MatchStations) > TopN
    /\ Len(top20_local) = TopN
    /\ top20_local[1].value > top20_local[TopN].value
    /\ \E k \in MatchStations \ Returned : TripsOf(k) = top20_local[TopN].value

----------------------------------------------------------------------------
\* The optional file a page opens.  top20.csv is read before the pages and
\* no page uses top20_csv.
Uses(p, a) ==
    \/ p = Pages[1] /\ a = IntroImage
    \/ p = Pages[4] /\ a = MapHtml
    \/ p = Pages[5] /\ a = RecsImage

(* C3 as stated: when a run has ended on a page whose optional file is
   missing, it has shown a warning or an error and ended normally, not with
   an uncaught fault. *)
C3_MissingAssetRecovered ==
    (pc = "done" /\ disk[Primary] = "ok") =>
        \A a \in Assets \ {Primary} :
            (disk[a] = "missing" /\ Uses(page, a)) =>
                /\ outcome = "ok"
                /\ Drawn("warning") \/ Drawn("error")

(* C4: with the primary file missing the run shows the one error and stops at
   line 46, on every page selected: top20.csv is not read, no page branch
   runs, nothing is filtered, aggregated or drawn. *)
C4_MissingPrimaryStops ==
    disk[Primary] = "missing" =>
        /\ pc \in {"import", "done"}
        /\ top20_csv = "unset"
        /\ df = NoTable /\ df1 = NoTable
        /\ season_filter = {} /\ station_col_df = NoColumn
        /\ top20_local = <<>> /\ total_rides = 0
        /\ ~weatherSeen
        /\ pc = "import" => out = <<>>
        /\ pc = "done" => outcome = "stopped" /\ out = <<El("error", MsgNoFile)>>

\* The error has been reported on the stations page, selected after the intro
\* page's run had stopped the same way.
C4_Witness ==
    /\ disk[Primary] = "missing"
    /\ pc = "done" /\ page = Pages[3]
    /\ outcome = "stopped"
    /\ out = <<El("error", MsgNoFile)>>

(* C5: when the selection matches no row of the file, the empty one included,
   the stations page shows the 'no data' error and nothing else, no metric
   and no chart, returns no aggregate, and ends normally; the message is
   neither the missing-file nor the missing-column one. *)
C5_EmptySelectionReported ==
    (OnStations /\ df1 # NoTable /\ MatchIdx = {}) =>
        /\ out = <<El("error", MsgNoData)>>
        /\ ~Drawn("metric") /\ ~Drawn("chart")
        /\ top20_local = <<>>
        /\ outcome = "ok"
        /\ MsgNoData \notin {MsgNoFile, MsgNoStationCol}

\* The user has emptied the selection over a file that has rows.
C5_Witness ==
    /\ OnStations
    /\ widget = << {} >>
    /\ season_filter = {}
    /\ csv.rows # <<>>
    /\ out = <<El("error", MsgNoData)>>

\* No column of the file is a station column: none contains 'station', none
\* contains 'name' (one that contains 'start' and 'station' would).
NoStationColumn ==
    \A i \in 1..Len(csv.cols) :
        ~In("station", csv.cols[i]) /\ ~In("name", csv.cols[i])

\* The column the claim prefers: the first with 'start' and 'station', else
\* the first with 'station' or 'name'
Preferred ==
    LET both == {i \in 1..Len(csv.cols) :
                    In("start", csv.cols[i]) /\ In("station", csv.cols[i])}
        any == {i \in 1..Len(csv.cols) :
                    In("station", csv.cols[i]) \/ In("name", csv.cols[i])}
        first(S) == CHOOSE i \in S : \A j \in S : i <= j
    IN IF both # {} THEN csv.cols[first(both)] ELSE csv.cols[first(any)]

(* C6 as stated: on the stations page, a file without a station column makes
   the run end with the configuration error and halt, whatever the season
   selection. *)
C6_NoStationColumnAlwaysHalts ==
    (OnStations /\ disk[Primary] = "ok" /\ HasCol(csv, "season") /\ NoStationColumn)
        => /\ outcome = "stopped"
           /\ out # <<>>
           /\ out[Len(out)] = El("error", MsgNoStationCol)

(* C6 amended: on the stations page, for a selection that matches at least one
   row of a file that has the bike_rides_daily column the page reads first, a
   file without a station column makes the run show the configuration error
   and halt, with no chart and no aggregate; with a station column, the first
   column containing 'start' and 'station' is taken, else the first
   containing 'station' or 'name'.  For a selection that matches no row the
   page shows the 'no data' error instead and does not halt. *)
C6_NoStationColumnHalts ==
    /\ (OnStations /\ df1 # NoTable /\ MatchIdx # {} /\ HasCol(csv, "bike_rides_daily"))
          => /\ NoStationColumn =>
                  /\ outcome = "stopped"
                  /\ out[Len(out)] = El("error", MsgNoStationCol)
                  /\ ~Drawn("chart")
                  /\ top20_local = <<>>
             /\ ~NoStationColumn =>
                  /\ station_col_df = Preferred
                  /\ outcome = "ok"
                  /\ Drawn("chart")
    /\ (OnStations /\ df1 # NoTable /\ MatchIdx = {} /\ NoStationColumn)
          => /\ outcome = "ok"
             /\ out = <<El("error", MsgNoData)>>

\* The page has halted on a file without a station column, under a selection
\* the user made that matches rows.
C6_Witness ==
    /\ OnStations
    /\ NoStationColumn
    /\ widget # <<>> /\ MatchIdx # {}
    /\ outcome = "stopped"
    /\ out[Len(out)] = El("error", MsgNoStationCol)

----------------------------------------------------------------------------
(* C7: shorten(name, n) is name when name has at most n characters, the empty
   string and a string that ends in the ellipsis included; otherwise it is
   the first n - 1 characters of name without the blanks they end in, and
   one ellipsis after them.  It is never longer than n, and shortening what
   it returned returns the same. *)
C7_ShortenContract ==
    fmt.calls >= 1 =>
        /\ Len(fmt.name) <= fmt.n => fmt.first = fmt.name
        /\ Len(fmt.name) > fmt.n =>
              \E k \in 0..(fmt.n - 1) :
                  /\ fmt.first = SubSeq(fmt.name, 1, k) \o <<Ellipsis>>
                  /\ k > 0 => fmt.name[k] \notin Whitespace
                  /\ \A j \in (k + 1)..(fmt.n - 1) : fmt.name[j] \in Whitespace
        /\ Len(fmt.first) <= fmt.n
        /\ fmt.calls = 2 => fmt.again = fmt.first

\* A name longer than n whose cut ends in a blank has been shortened twice,
\* and the first result, ellipsis at its end, came back unchanged.
C7_Witness ==
    /\ fmt.calls = 2
    /\ fmt.n >= 3
    /\ Len(fmt.name) > fmt.n
    /\ fmt.name[fmt.n - 1] \in Whitespace
    /\ fmt.name[1] \notin Whitespace
    /\ fmt.first[Len(fmt.first)] = Ellipsis
    /\ Len(fmt.first) < fmt.n
    /\ fmt.again = fmt.first

\* The difference the claim describes: input minus its predecessor, undefined
\* when either is missing
Delta(s, i) ==
    IF s[i] = Missing \/ s[i - 1] = Missing THEN Missing
    ELSE <<s[i][1] - s[i - 1][1]>>

(* C8 as stated: after the weather page, avgTemp_daily equals avgTemp when no
   temperature exceeds 100; when one does, its first entry is the first raw
   value and every later entry is the difference between the raw value and
   the one before it, no other entry being filled. *)
C8_DailyTemperature ==
    (pc = "done" /\ page = Pages[2] /\ outcome = "ok") =>
        LET raw == Column(csv, "avgTemp")
            daily == Column(df, "avgTemp_daily")
        IN /\ (\A i \in 1..Len(raw) : raw[i] = Missing \/ raw[i][1] <= CumulativeThreshold)
                => daily = raw
           /\ (\E i \in 1..Len(raw) : raw[i] # Missing /\ raw[i][1] > CumulativeThreshold)
                => /\ daily[1] = raw[1]
                   /\ \A i \in 2..Len(raw) : daily[i] = Delta(raw, i)

(* C9: the stations page leaves the loaded table as it is, whatever the
   selection: its step changes neither a column nor a row of df, and the
   'value' column is in df1 only. *)
C9_SourceTableUnchanged ==
    [][(pc = "page" /\ page = Pages[3]) =>
          /\ df' = df
          /\ ~HasCol(df', "value")]_vars

\* The chart is drawn under a selection the user made, with 'value' in df1 and
\* not in df.
C9_Witness ==
    /\ ChartDrawn
    /\ widget # <<>>
    /\ HasCol(df1, "value")
    /\ ~HasCol(df, "value")
    /\ df = csv

\* The aggregate of a table under a selection, by the page's own steps
Aggregate(d, sel) ==
    LET w == AssignValue(d, Query(d, sel))
    IN Top20(w.df1, StationColumn(w.df1.cols))

(* C10: whatever pages were visited and whatever was selected before, the
   aggregate on the page is the one the file's table and the current
   selection give, ties in the same order: the run works on the table as the
   file holds it, nothing an earlier weather page wrote is in it, and the
   selection is the one the multiselect holds now. *)
C10_DependsOnTableAndSelection ==
    ChartDrawn =>
        /\ df = csv
        /\ season_filter = (IF widget = <<>> THEN Unique(csv) ELSE widget[1])
        /\ top20_local = Aggregate(csv, season_filter)

\* The chart is drawn after the weather page has rewritten its df and after
\* the user changed the selection, and two stations in it are tied.
C10_Witness ==
    /\ ChartDrawn
    /\ weatherSeen
    /\ widget # <<>>
    /\ \E i \in 1..(Len(top20_local) - 1) :
          top20_local[i].value = top20_local[i + 1].value

====
